---- MODULE Spec2Model ----
(***************************************************************************)
(* State-machine model of main.py: the CSV clean-up, the load of the four  *)
(* normalized tables through one psycopg2 connection, and the RFM          *)
(* segmentation computed by one CREATE TABLE AS statement.                 *)
(*                                                                         *)
(* The database is modelled twice: tx is what the script's own session     *)
(* sees (its uncommitted changes included), committed is what any other    *)
(* session reads.  psycopg2 opens a transaction implicitly and nothing is  *)
(* visible to other sessions before conn.commit().                         *)
(***************************************************************************)
EXTENDS Integers, Sequences, FiniteSets, TLC

VARIABLES csv, prev_csv, df, todo, i, tx, committed, err, run,
          e_dim, e_rfm, e_ntile, e_score, e_pc,
          s_row, s_pc

pipeVars == <<csv, prev_csv, df, todo, i, tx, committed, err, run>>
ntileVars == <<e_dim, e_rfm, e_ntile, e_score, e_pc>>
segVars == <<s_row, s_pc>>
vars == <<csv, prev_csv, df, todo, i, tx, committed, err, run,
          e_dim, e_rfm, e_ntile, e_score, e_pc, s_row, s_pc>>

(***************************************************************************)
(* Bounds of the model.                                                    *)
(***************************************************************************)
MaxRows == 2
MaxRuns == 2
MaxN == 6
MaxKey == 1
Today == 3

(***************************************************************************)
(* The raw file.  CustomerID is a float64 column (it holds NaN), written   *)
(* here in tenths: 10 is 1.0, 20 is 2.0.  The input contract gives it      *)
(* integer values only.  InvoiceDate is a string until pd.to_datetime.     *)
(***************************************************************************)
NaN == 0
NoDescription == "NaN"

InvoiceNos == {"536365", "536366"}
StockCodes == {"85123A", "71053"}
CustomerIDs == {NaN, 10, 20}

\* What a line says besides its three keys.  Every column takes two values
\* and the description is missing in one.
Details ==
    {[Description |-> "LANTERN", Quantity |-> 1, InvoiceDate |-> "12/1/2010",
      UnitPrice |-> 1, Country |-> "UK"],
     [Description |-> "LANTERN", Quantity |-> 2, InvoiceDate |-> "12/2/2010",
      UnitPrice |-> 2, Country |-> "FR"],
     [Description |-> NoDescription, Quantity |-> 1, InvoiceDate |-> "12/1/2010",
      UnitPrice |-> 1, Country |-> "UK"]}

RowsOver(invs, stocks, custs, details) ==
    {[InvoiceNo |-> n, StockCode |-> s, Description |-> d.Description,
      Quantity |-> d.Quantity, InvoiceDate |-> d.InvoiceDate,
      UnitPrice |-> d.UnitPrice, CustomerID |-> c, Country |-> d.Country] :
        n \in invs, s \in stocks, c \in custs, d \in details}

RawRows == RowsOver(InvoiceNos, StockCodes, CustomerIDs, Details)

\* The rows of the re-run specification: complete lines of one product, on
\* two invoices and two customers.
RerunRows ==
    RowsOver(InvoiceNos, {"85123A"}, CustomerIDs \ {NaN},
             {d \in Details : d.Description # NoDescription /\ d.Quantity = 1})

SeqsUpTo(S, n) == UNION {[1..k -> S] : k \in 0..n}

(***************************************************************************)
(* Step 1: load and clean.                                                 *)
(***************************************************************************)
\* pd.to_datetime on the date strings of the file: the day number.
ToDatetime(s) ==
    CASE s = "12/1/2010" -> 1
      [] s = "12/2/2010" -> 2

\* int(row['CustomerID']): truncation of the float.
PyInt(x) == x \div 10

\* The float bound to an INTEGER column: PostgreSQL's assignment cast rounds.
PgInt(x) == (x + 5) \div 10

\* A row dropna(subset=['CustomerID', 'Description']) removes.
HasNull(r) == r.CustomerID = NaN \/ r.Description = NoDescription

DropNaCustomerOnly(rows) == SelectSeq(rows, LAMBDA r : r.CustomerID # NaN)
DropNa(rows) == SelectSeq(rows, LAMBDA r : ~HasNull(r))

\* The two column assignments after dropna.
Clean(rows) ==
    [k \in 1..Len(rows) |->
        [InvoiceNo |-> rows[k].InvoiceNo, StockCode |-> rows[k].StockCode,
         Description |-> rows[k].Description, Quantity |-> rows[k].Quantity,
         InvoiceDate |-> ToDatetime(rows[k].InvoiceDate),
         UnitPrice |-> rows[k].UnitPrice, CustomerID |-> rows[k].CustomerID,
         Country |-> rows[k].Country,
         TotalPrice |-> rows[k].Quantity * rows[k].UnitPrice]]

\* DataFrame.drop_duplicates(): the first occurrence of each row, in order.
RECURSIVE DropDuplicates(_)
DropDuplicates(s) ==
    IF s = <<>> THEN <<>>
    ELSE LET front == DropDuplicates(SubSeq(s, 1, Len(s) - 1))
             last == s[Len(s)]
         IN  IF \E j \in 1..Len(front) : front[j] = last
             THEN front
             ELSE Append(front, last)

CustomerRows(d) ==
    DropDuplicates([k \in 1..Len(d) |->
        [CustomerID |-> d[k].CustomerID, Country |-> d[k].Country]])

ProductRows(d) ==
    DropDuplicates([k \in 1..Len(d) |->
        [StockCode |-> d[k].StockCode, Description |-> d[k].Description,
         UnitPrice |-> d[k].UnitPrice]])

InvoiceRows(d) ==
    DropDuplicates([k \in 1..Len(d) |->
        [InvoiceNo |-> d[k].InvoiceNo, InvoiceDate |-> d[k].InvoiceDate,
         CustomerID |-> d[k].CustomerID]])

ItemRows(d) ==
    [k \in 1..Len(d) |->
        [InvoiceNo |-> d[k].InvoiceNo, StockCode |-> d[k].StockCode,
         Quantity |-> d[k].Quantity]]

(***************************************************************************)
(* The store.                                                              *)
(***************************************************************************)
BaseTables == {"customers", "products", "invoices", "invoice_items"}

EmptyTable(t) == IF t = "invoice_items" THEN <<>> ELSE {}

EmptyDb ==
    [exists |-> {}, customers |-> {}, products |-> {}, invoices |-> {},
     invoice_items |-> <<>>, rfm_segmentation |-> {}]

\* The REFERENCES clauses of the schema: <<referencing, referenced>>.
References ==
    {<<"invoices", "customers">>, <<"invoice_items", "invoices">>,
     <<"invoice_items", "products">>}

\* DROP TABLE IF EXISTS t: refused while another table references t.
DropBlocked(db, t) ==
    t \in db.exists /\ \E p \in References : p[2] = t /\ p[1] \in db.exists

DropTableKeepRows(db, t) == [db EXCEPT !.exists = @ \ {t}]
DropTable(db, t) == [db EXCEPT !.exists = @ \ {t}, ![t] = EmptyTable(t)]

DropOrder == <<"invoice_items", "invoices", "products", "customers">>
CreateOrder == <<"customers", "products", "invoices", "invoice_items">>

\* The statements of one execute() run in order and stop at the first failure.
RECURSIVE DropAll(_, _)
DropAll(db, ts) ==
    IF ts = <<>> THEN [db |-> db, ok |-> TRUE]
    ELSE IF DropBlocked(db, Head(ts)) THEN [db |-> db, ok |-> FALSE]
    ELSE DropAll(DropTable(db, Head(ts)), Tail(ts))

CreateBlocked(db, t) ==
    \/ t \in db.exists
    \/ \E p \in References : p[1] = t /\ p[2] \notin db.exists

CreateTable(db, t) == [db EXCEPT !.exists = @ \cup {t}]

RECURSIVE CreateAll(_, _)
CreateAll(db, ts) ==
    IF ts = <<>> THEN [db |-> db, ok |-> TRUE]
    ELSE IF CreateBlocked(db, Head(ts)) THEN [db |-> db, ok |-> FALSE]
    ELSE CreateAll(CreateTable(db, Head(ts)), Tail(ts))

\* INSERT ... ON CONFLICT (key) DO NOTHING.
InsertOverwrite(table, new, key) ==
    {r \in table : r[key] # new[key]} \cup {new}
InsertOnConflictDoNothing(table, new, key) ==
    IF \E r \in table : r[key] = new[key] THEN table ELSE table \cup {new}

Keys(table, key) == {r[key] : r \in table}

\* psycopg2's default: statements run in a transaction until conn.commit().
AutoCommitOn == TRUE
AutoCommit == FALSE

Visible(old, new) == IF AutoCommit THEN new ELSE old

(***************************************************************************)
(* The script, statement by statement.                                     *)
(***************************************************************************)
LoadFirstInvoices ==
    <<"load_csv", "drop_tables", "create_schema", "commit",
      "invoices", "customers", "products", "invoice_items", "commit",
      "drop_rfm", "create_rfm", "commit">>
Program ==
    <<"load_csv", "drop_tables", "create_schema", "commit",
      "customers", "products", "invoices", "invoice_items", "commit",
      "drop_rfm", "create_rfm", "commit">>

Running == err = "none" /\ todo # <<>>
At(stmt) == Running /\ Head(todo) = stmt
Done == err = "none" /\ todo = <<>> /\ e_pc = "off" /\ s_pc = "off"

Advance == todo' = Tail(todo) /\ i' = 1

Fail(e) == err' = e /\ UNCHANGED <<todo, i, tx, committed>>

LoadCsv ==
    /\ At("load_csv")
    /\ df' = Clean(DropNa(csv))
    /\ Advance
    /\ UNCHANGED <<csv, prev_csv, tx, committed, err, run>>
    /\ UNCHANGED <<ntileVars, segVars>>

DropTables ==
    /\ At("drop_tables")
    /\ LET res == DropAll(tx, DropOrder)
       IN  IF res.ok
           THEN /\ tx' = res.db
                /\ committed' = Visible(committed, res.db)
                /\ Advance
                /\ UNCHANGED err
           ELSE Fail("DependentObjectsStillExist")
    /\ UNCHANGED <<csv, prev_csv, df, run>>
    /\ UNCHANGED <<ntileVars, segVars>>

CreateSchema ==
    /\ At("create_schema")
    /\ LET res == CreateAll(tx, CreateOrder)
       IN  IF res.ok
           THEN /\ tx' = res.db
                /\ committed' = Visible(committed, res.db)
                /\ Advance
                /\ UNCHANGED err
           ELSE Fail("DuplicateTable")
    /\ UNCHANGED <<csv, prev_csv, df, run>>
    /\ UNCHANGED <<ntileVars, segVars>>

Commit ==
    /\ At("commit")
    /\ committed' = tx
    /\ Advance
    /\ UNCHANGED <<csv, prev_csv, df, tx, err, run>>
    /\ UNCHANGED <<ntileVars, segVars>>

\* The end of a for loop over a candidate frame.
LoopEnd ==
    /\ \/ At("customers") /\ i > Len(CustomerRows(df))
       \/ At("products") /\ i > Len(ProductRows(df))
       \/ At("invoices") /\ i > Len(InvoiceRows(df))
       \/ At("invoice_items") /\ i > Len(ItemRows(df))
    /\ Advance
    /\ UNCHANGED <<csv, prev_csv, df, tx, committed, err, run>>
    /\ UNCHANGED <<ntileVars, segVars>>

Stored(db) ==
    /\ tx' = db
    /\ committed' = Visible(committed, db)
    /\ i' = i + 1
    /\ UNCHANGED <<todo, err>>

InsertCustomer ==
    /\ At("customers") /\ i <= Len(CustomerRows(df))
    /\ LET row == CustomerRows(df)[i]
           new == [customer_id |-> PyInt(row.CustomerID), country |-> row.Country]
       IN  IF "customers" \notin tx.exists
           THEN Fail("UndefinedTable")
           ELSE Stored([tx EXCEPT !.customers =
                            InsertOnConflictDoNothing(@, new, "customer_id")])
    /\ UNCHANGED <<csv, prev_csv, df, run>>
    /\ UNCHANGED <<ntileVars, segVars>>

InsertProduct ==
    /\ At("products") /\ i <= Len(ProductRows(df))
    /\ LET row == ProductRows(df)[i]
           new == [stock_code |-> row.StockCode, description |-> row.Description,
                   unit_price |-> row.UnitPrice]
       IN  IF "products" \notin tx.exists
           THEN Fail("UndefinedTable")
           ELSE Stored([tx EXCEPT !.products =
                            InsertOnConflictDoNothing(@, new, "stock_code")])
    /\ UNCHANGED <<csv, prev_csv, df, run>>
    /\ UNCHANGED <<ntileVars, segVars>>

InsertInvoice ==
    /\ At("invoices") /\ i <= Len(InvoiceRows(df))
    /\ LET row == InvoiceRows(df)[i]
           new == [invoice_no |-> row.InvoiceNo, invoice_date |-> row.InvoiceDate,
                   customer_id |-> PgInt(row.CustomerID)]
           table == InsertOnConflictDoNothing(tx.invoices, new, "invoice_no")
       IN  IF "invoices" \notin tx.exists
           THEN Fail("UndefinedTable")
           ELSE IF /\ table # tx.invoices
                   /\ new.customer_id \notin Keys(tx.customers, "customer_id")
           THEN Fail("ReferentialError")
           ELSE Stored([tx EXCEPT !.invoices = table])
    /\ UNCHANGED <<csv, prev_csv, df, run>>
    /\ UNCHANGED <<ntileVars, segVars>>

InsertInvoiceItem ==
    /\ At("invoice_items") /\ i <= Len(ItemRows(df))
    /\ LET row == ItemRows(df)[i]
           new == [invoice_no |-> row.InvoiceNo, stock_code |-> row.StockCode,
                   quantity |-> row.Quantity]
       IN  IF "invoice_items" \notin tx.exists
           THEN Fail("UndefinedTable")
           ELSE IF \/ new.invoice_no \notin Keys(tx.invoices, "invoice_no")
                   \/ new.stock_code \notin Keys(tx.products, "stock_code")
           THEN Fail("ReferentialError")
           ELSE Stored([tx EXCEPT !.invoice_items = Append(@, new)])
    /\ UNCHANGED <<csv, prev_csv, df, run>>
    /\ UNCHANGED <<ntileVars, segVars>>

DropRfm ==
    /\ At("drop_rfm")
    /\ tx' = DropTable(tx, "rfm_segmentation")
    /\ committed' = Visible(committed, tx')
    /\ Advance
    /\ UNCHANGED <<csv, prev_csv, df, err, run>>
    /\ UNCHANGED <<ntileVars, segVars>>

(***************************************************************************)
(* Step 8: the RFM statement.                                              *)
(***************************************************************************)
NTiles == 5
ScoreBase == 6

Max(S) == CHOOSE x \in S : \A y \in S : y <= x

\* customers JOIN invoices JOIN invoice_items JOIN products; an item is
\* named by its position, the table has no key.
JoinRowsAnyCustomer(db) ==
    {j \in db.customers \X db.invoices \X (1..Len(db.invoice_items)) \X db.products :
        /\ j[2].invoice_no = db.invoice_items[j[3]].invoice_no
        /\ db.invoice_items[j[3]].stock_code = j[4].stock_code}
JoinRows(db) ==
    {j \in db.customers \X db.invoices \X (1..Len(db.invoice_items)) \X db.products :
        /\ j[1].customer_id = j[2].customer_id
        /\ j[2].invoice_no = db.invoice_items[j[3]].invoice_no
        /\ db.invoice_items[j[3]].stock_code = j[4].stock_code}

RECURSIVE SumAmount(_, _)
SumAmount(db, J) ==
    IF J = {} THEN 0
    ELSE LET j == CHOOSE x \in J : TRUE
         IN  db.invoice_items[j[3]].quantity * j[4].unit_price
                 + SumAmount(db, J \ {j})

\* The rfm CTE: GROUP BY c.customer_id over the join.
Rfm(db) ==
    {LET G == {j \in JoinRows(db) : j[1].customer_id = g}
     IN  [customer_id |-> g,
          recency |-> Today - Max({j[2].invoice_date : j \in G}),
          frequency |-> Cardinality({j[2].invoice_no : j \in G}),
          monetary |-> SumAmount(db, G)]
     : g \in {j[1].customer_id : j \in JoinRows(db)}}

\* ORDER BY key ASC / DESC: x may come before y.
MayPrecede(x, y, key, desc) ==
    IF desc THEN x[key] >= y[key] ELSE x[key] <= y[key]

\* Every order the sort may produce: rows with equal keys come in any order.
RECURSIVE SortedOrders(_, _, _)
SortedOrders(S, key, desc) ==
    IF S = {} THEN {<<>>}
    ELSE UNION {{<<x>> \o t : t \in SortedOrders(S \ {x}, key, desc)} :
                x \in {x \in S : \A y \in S : MayPrecede(x, y, key, desc)}}

\* NTILE(5) of the row at position pos (from 1) among n rows: the first
\* n % 5 buckets hold one row more than the others.
NtileOfEvenWidth(pos, n) == (pos - 1) \div ((n + NTiles - 1) \div NTiles) + 1
NtileOf(pos, n) ==
    LET q == n \div NTiles
        r == n % NTiles
    IN  IF pos <= r * (q + 1)
        THEN (pos - 1) \div (q + 1) + 1
        ELSE r + (pos - 1 - r * (q + 1)) \div q + 1

PosOf(x, ord) == CHOOSE k \in 1..Len(ord) : ord[k] = x

\* The results NTILE(5) OVER (ORDER BY key) may give on the rows of S.
NtileResults(S, key, desc) ==
    {[x \in S |-> NtileOf(PosOf(x, ord), Cardinality(S))] :
        ord \in SortedOrders(S, key, desc)}

RNtile(S) == NtileResults(S, "recency", FALSE)
FNtile(S) == NtileResults(S, "frequency", TRUE)
MNtile(S) == NtileResults(S, "monetary", TRUE)

\* The rfm_ntile CTE under one outcome of the three window sorts.
RfmNtile(S, rn, fn, mn) ==
    {[customer_id |-> x.customer_id, recency |-> x.recency,
      frequency |-> x.frequency, monetary |-> x.monetary,
      r_ntile |-> rn[x], f_ntile |-> fn[x], m_ntile |-> mn[x]] : x \in S}

RScoreNoFlip(b) == b
RScore(b) == ScoreBase - b
FScore(b) == ScoreBase - b
MScore(b) == ScoreBase - b

\* The rfm_scores CTE.
RfmScores(N) ==
    {[customer_id |-> x.customer_id, recency |-> x.recency,
      frequency |-> x.frequency, monetary |-> x.monetary,
      r_score |-> RScore(x.r_ntile), f_score |-> FScore(x.f_ntile),
      m_score |-> MScore(x.m_ntile)] : x \in N}

\* CASE ... END AS segment: the first WHEN that holds.
SegmentLoyalFirst(r, f, m) ==
    IF r >= 4 /\ f >= 4 THEN "Loyal Customers"
    ELSE IF r = 5 /\ f = 5 /\ m = 5 THEN "Champions"
    ELSE IF m = 5 THEN "Big Spenders"
    ELSE IF r = 1 THEN "Lost"
    ELSE "Others"
Segment(r, f, m) ==
    IF r = 5 /\ f = 5 /\ m = 5 THEN "Champions"
    ELSE IF r >= 4 /\ f >= 4 THEN "Loyal Customers"
    ELSE IF m = 5 THEN "Big Spenders"
    ELSE IF r = 1 THEN "Lost"
    ELSE "Others"

\* The final SELECT; concat() of the three digits is kept as their sequence.
FinalSelect(S) ==
    {[customer_id |-> x.customer_id, recency |-> x.recency,
      frequency |-> x.frequency, monetary |-> x.monetary,
      r_score |-> x.r_score, f_score |-> x.f_score, m_score |-> x.m_score,
      rfm_score |-> <<x.r_score, x.f_score, x.m_score>>,
      segment |-> Segment(x.r_score, x.f_score, x.m_score)] : x \in S}

\* Every table the statement may build from the session's view of the store.
RfmSegmentation(db) ==
    {FinalSelect(RfmScores(RfmNtile(Rfm(db), rn, fn, mn))) :
        rn \in RNtile(Rfm(db)), fn \in FNtile(Rfm(db)), mn \in MNtile(Rfm(db))}

CreateRfm ==
    /\ At("create_rfm")
    /\ IF "rfm_segmentation" \in tx.exists
       THEN Fail("DuplicateTable")
       ELSE IF ~(BaseTables \subseteq tx.exists)
       THEN Fail("UndefinedTable")
       ELSE /\ \E t \in RfmSegmentation(tx) :
                 tx' = [tx EXCEPT !.exists = @ \cup {"rfm_segmentation"},
                                  !.rfm_segmentation = t]
            /\ committed' = Visible(committed, tx')
            /\ Advance
            /\ UNCHANGED err
    /\ UNCHANGED <<csv, prev_csv, df, run>>
    /\ UNCHANGED <<ntileVars, segVars>>

\* The script is started again on a new file; the store is what the last
\* run left in it.
Rerun ==
    /\ Done
    /\ run < MaxRuns
    /\ \E f \in SeqsUpTo(RerunRows, MaxRows) : csv' = f
    /\ prev_csv' = csv
    /\ df' = <<>>
    /\ todo' = Program
    /\ i' = 1
    /\ tx' = committed
    /\ run' = run + 1
    /\ UNCHANGED <<committed, err>>
    /\ UNCHANGED <<ntileVars, segVars>>

EngineOff ==
    /\ e_dim = "none" /\ e_rfm = {} /\ e_ntile = <<>> /\ e_score = <<>>
    /\ e_pc = "off"
    /\ s_row = <<>> /\ s_pc = "off"

PipeInit(rows) ==
    /\ csv \in SeqsUpTo(rows, MaxRows)
    /\ prev_csv = <<>>
    /\ df = <<>>
    /\ todo = Program
    /\ i = 1
    /\ tx = EmptyDb
    /\ committed = EmptyDb
    /\ err = "none"
    /\ run = 1

Init == PipeInit(RawRows) /\ EngineOff

Run ==
    \/ LoadCsv
    \/ DropTables
    \/ CreateSchema
    \/ Commit
    \/ InsertCustomer
    \/ InsertProduct
    \/ InsertInvoice
    \/ InsertInvoiceItem
    \/ LoopEnd
    \/ DropRfm
    \/ CreateRfm

Next == Run

Spec == Init /\ [][Next]_vars

(***************************************************************************)
(* The script run again and again on one store.                            *)
(***************************************************************************)
InitRerun == PipeInit(RerunRows) /\ EngineOff

NextRerun == Run \/ Rerun

SpecRerun == InitRerun /\ [][NextRerun]_vars

(***************************************************************************)
(* The three insert-if-absent loops applied twice to one cleaned frame,    *)
(* on the empty schema.                                                    *)
(***************************************************************************)
LoadTwice ==
    <<"customers", "products", "invoices", "customers", "products", "invoices">>

InitUpsert ==
    /\ csv \in SeqsUpTo(RawRows, MaxRows)
    /\ prev_csv = <<>>
    /\ df = Clean(DropNa(csv))
    /\ todo = LoadTwice
    /\ i = 1
    /\ tx = CreateAll(EmptyDb, CreateOrder).db
    /\ committed = tx
    /\ err = "none"
    /\ run = 1
    /\ EngineOff

NextUpsert ==
    \/ InsertCustomer
    \/ InsertProduct
    \/ InsertInvoice
    \/ LoopEnd

SpecUpsert == InitUpsert /\ [][NextUpsert]_vars

(***************************************************************************)
(* One window of the rfm_ntile CTE and its score, on any rfm rows.         *)
(***************************************************************************)
Dims == {"recency", "frequency", "monetary"}

DimNtile(d, S) ==
    CASE d = "recency" -> RNtile(S)
      [] d = "frequency" -> FNtile(S)
      [] d = "monetary" -> MNtile(S)

DimScore(d, b) ==
    CASE d = "recency" -> RScore(b)
      [] d = "frequency" -> FScore(b)
      [] d = "monetary" -> MScore(b)

PipeIdle ==
    /\ csv = <<>> /\ prev_csv = <<>> /\ df = <<>> /\ todo = <<>> /\ i = 1
    /\ tx = EmptyDb /\ committed = EmptyDb /\ err = "none" /\ run = 1

InitNtile ==
    /\ PipeIdle
    /\ e_dim \in Dims
    /\ \E n \in 0..MaxN : \E k \in [1..n -> 0..MaxKey] :
          e_rfm = {[customer_id |-> c, recency |-> k[c], frequency |-> k[c],
                    monetary |-> k[c]] : c \in 1..n}
    /\ e_ntile = <<>>
    /\ e_score = <<>>
    /\ e_pc = "rfm"
    /\ s_row = <<>> /\ s_pc = "off"

NtileStep ==
    /\ e_pc = "rfm"
    /\ e_ntile' \in DimNtile(e_dim, e_rfm)
    /\ e_pc' = "rfm_ntile"
    /\ UNCHANGED <<e_dim, e_rfm, e_score>>
    /\ UNCHANGED <<pipeVars, segVars>>

ScoreStep ==
    /\ e_pc = "rfm_ntile"
    /\ e_score' = [x \in e_rfm |-> DimScore(e_dim, e_ntile[x])]
    /\ e_pc' = "rfm_scores"
    /\ UNCHANGED <<e_dim, e_rfm, e_ntile>>
    /\ UNCHANGED <<pipeVars, segVars>>

NextNtile == NtileStep \/ ScoreStep

SpecNtile == InitNtile /\ [][NextNtile]_vars

(***************************************************************************)
(* The rfm_scores CTE and the final SELECT on one rfm_ntile row.           *)
(***************************************************************************)
InitSegment ==
    /\ PipeIdle
    /\ e_dim = "none" /\ e_rfm = {} /\ e_ntile = <<>> /\ e_score = <<>>
    /\ e_pc = "off"
    /\ \E r \in 1..NTiles, f \in 1..NTiles, m \in 1..NTiles :
          s_row = [customer_id |-> 1, recency |-> 0, frequency |-> 1,
                   monetary |-> 0, r_ntile |-> r, f_ntile |-> f, m_ntile |-> m]
    /\ s_pc = "rfm_ntile"

ScoresRow ==
    /\ s_pc = "rfm_ntile"
    /\ s_row' = CHOOSE x \in RfmScores({s_row}) : TRUE
    /\ s_pc' = "rfm_scores"
    /\ UNCHANGED <<pipeVars, ntileVars>>

SelectRow ==
    /\ s_pc = "rfm_scores"
    /\ s_row' = CHOOSE x \in FinalSelect({s_row}) : TRUE
    /\ s_pc' = "select"
    /\ UNCHANGED <<pipeVars, ntileVars>>

NextSegment == ScoresRow \/ SelectRow

SpecSegment == InitSegment /\ [][NextSegment]_vars

(***************************************************************************)
(* What the file says, read directly off csv: the lines that keep both a   *)
(* customer id and a description, and the first line of each key.          *)
(***************************************************************************)
Kept ==
    {k \in 1..Len(csv) :
        csv[k].CustomerID # NaN /\ csv[k].Description # NoDescription}

NthKept(n) == CHOOSE k \in Kept : Cardinality({j \in Kept : j < k}) = n - 1

FirstOf(col) ==
    {k \in Kept : \A j \in Kept : j < k => csv[j][col] # csv[k][col]}

CustomerOf(k) ==
    [customer_id |-> csv[k].CustomerID \div 10, country |-> csv[k].Country]

ProductOf(k) ==
    [stock_code |-> csv[k].StockCode, description |-> csv[k].Description,
     unit_price |-> csv[k].UnitPrice]

InvoiceOf(k) ==
    [invoice_no |-> csv[k].InvoiceNo,
     invoice_date |-> ToDatetime(csv[k].InvoiceDate),
     customer_id |-> csv[k].CustomerID \div 10]

ItemOf(k) ==
    [invoice_no |-> csv[k].InvoiceNo, stock_code |-> csv[k].StockCode,
     quantity |-> csv[k].Quantity]

ExpectedCustomers == {CustomerOf(k) : k \in FirstOf("CustomerID")}
ExpectedProducts == {ProductOf(k) : k \in FirstOf("StockCode")}
ExpectedInvoices == {InvoiceOf(k) : k \in FirstOf("InvoiceNo")}
ExpectedItems == [n \in 1..Cardinality(Kept) |-> ItemOf(NthKept(n))]

\* The four loops are over: what is left is the commit and step 8.
Loaded == err = "none" /\ Len(todo) <= 4

(***************************************************************************)
(* C1.  Completeness filter: a line of the file whose customer id or       *)
(* description is missing gives no row of customers, products, invoices or *)
(* invoice_items; every row of these tables comes from a line that has     *)
(* both.  Once the load is over every such line is represented: its        *)
(* customer id is in customers, its stock code in products, its invoice    *)
(* number in invoices, and invoice_items holds exactly one row per such    *)
(* line, in file order.                                                    *)
(***************************************************************************)
C1_CompletenessFilter ==
    /\ \A c \in tx.customers : \E k \in Kept : c = CustomerOf(k)
    /\ \A p \in tx.products : \E k \in Kept : p = ProductOf(k)
    /\ \A v \in tx.invoices : \E k \in Kept : v = InvoiceOf(k)
    /\ Len(tx.invoice_items) <= Cardinality(Kept)
    /\ \A n \in 1..Len(tx.invoice_items) : tx.invoice_items[n] = ItemOf(NthKept(n))
    /\ Loaded =>
          /\ Len(tx.invoice_items) = Cardinality(Kept)
          /\ \A k \in Kept :
                /\ csv[k].CustomerID \div 10 \in Keys(tx.customers, "customer_id")
                /\ csv[k].StockCode \in Keys(tx.products, "stock_code")
                /\ csv[k].InvoiceNo \in Keys(tx.invoices, "invoice_no")

\* A file of one line without description (its customer id present) and one
\* complete line, loaded: one item row.
C1_Witness ==
    /\ err = "none" /\ todo = <<>> /\ Len(csv) = 2
    /\ csv[1].Description = NoDescription /\ csv[1].CustomerID # NaN
    /\ 2 \in Kept
    /\ Len(committed.invoice_items) = 1
    /\ Cardinality(committed.customers) = 1

(***************************************************************************)
(* C2.  Idempotent upsert, first write wins: under the three               *)
(* insert-if-absent loops run twice over one frame, no insert fails, every *)
(* key of customers, products and invoices is held by one row only, that   *)
(* row carries the attributes of the first line with the key, and from the *)
(* end of a table's first loop on, through the whole second pass, the      *)
(* table is exactly the set of those first rows.                           *)
(***************************************************************************)
C2_FirstWriteWins ==
    /\ err = "none"
    /\ Cardinality(Keys(tx.customers, "customer_id")) = Cardinality(tx.customers)
    /\ Cardinality(Keys(tx.products, "stock_code")) = Cardinality(tx.products)
    /\ Cardinality(Keys(tx.invoices, "invoice_no")) = Cardinality(tx.invoices)
    /\ tx.customers \subseteq ExpectedCustomers
    /\ tx.products \subseteq ExpectedProducts
    /\ tx.invoices \subseteq ExpectedInvoices
    /\ Len(todo) <= 5 => tx.customers = ExpectedCustomers
    /\ Len(todo) <= 4 => tx.products = ExpectedProducts
    /\ Len(todo) <= 3 => tx.invoices = ExpectedInvoices

\* Both passes done on two lines of one customer, one product and one
\* invoice that disagree on the country, the price and the date.
C2_Witness ==
    /\ todo = <<>> /\ tx.invoice_items = <<>> /\ Len(df) = 2
    /\ df[1].CustomerID = df[2].CustomerID /\ df[1].Country # df[2].Country
    /\ df[1].StockCode = df[2].StockCode /\ df[1].UnitPrice # df[2].UnitPrice
    /\ df[1].InvoiceNo = df[2].InvoiceNo /\ df[1].InvoiceDate # df[2].InvoiceDate
    /\ Cardinality(tx.customers) = 1 /\ Cardinality(tx.invoices) = 1

(***************************************************************************)
(* C3.  Quintile partition: in each of the three windows the bucket        *)
(* numbers are in 1..5 and follow the sort order (a row that sorts         *)
(* strictly earlier never has the larger bucket), every bucket holds       *)
(* floor(N/5) or ceil(N/5) rows, the five sizes add up to N, and no bucket *)
(* is larger than an earlier one.                                          *)
(***************************************************************************)
BucketSize(b) == Cardinality({x \in e_rfm : e_ntile[x] = b})

SortsBefore(x, y) ==
    IF e_dim = "recency" THEN x.recency < y.recency ELSE x[e_dim] > y[e_dim]

C3_QuintilePartition ==
    e_pc \in {"rfm_ntile", "rfm_scores"} =>
        LET n == Cardinality(e_rfm)
        IN  /\ \A x \in e_rfm : e_ntile[x] \in 1..5
            /\ \A x, y \in e_rfm : SortsBefore(x, y) => e_ntile[x] <= e_ntile[y]
            /\ \A b \in 1..5 : BucketSize(b) \in {n \div 5, (n + 4) \div 5}
            /\ BucketSize(1) + BucketSize(2) + BucketSize(3) + BucketSize(4)
                   + BucketSize(5) = n
            /\ \A b \in 1..4 : BucketSize(b) >= BucketSize(b + 1)

\* Six rows with two different keys, ranked by descending monetary: the
\* first bucket holds two rows, the others one.
C3_Witness ==
    /\ e_pc = "rfm_ntile" /\ e_dim = "monetary" /\ Cardinality(e_rfm) = 6
    /\ Cardinality({x.monetary : x \in e_rfm}) = 2
    /\ BucketSize(1) = 2 /\ BucketSize(5) = 1

(***************************************************************************)
(* C4.  Segment precedence: the segment of a record is that of the first   *)
(* rule its scores match, in the order Champions, Loyal Customers, Big     *)
(* Spenders, Lost, Others; (5,5,5) is Champions and (4,4,5) is Loyal       *)
(* Customers.                                                              *)
(***************************************************************************)
C4_SegmentPrecedence ==
    s_pc = "select" =>
        LET r == s_row.r_score
            f == s_row.f_score
            m == s_row.m_score
            champions == r = 5 /\ f = 5 /\ m = 5
            loyal == r >= 4 /\ f >= 4
            big == m = 5
            lost == r = 1
        IN  /\ s_row.segment \in
                  {"Champions", "Loyal Customers", "Big Spenders", "Lost", "Others"}
            /\ s_row.segment = "Champions" <=> champions
            /\ s_row.segment = "Loyal Customers" <=> ~champions /\ loyal
            /\ s_row.segment = "Big Spenders" <=> ~champions /\ ~loyal /\ big
            /\ s_row.segment = "Lost" <=> ~champions /\ ~loyal /\ ~big /\ lost
            /\ s_row.segment = "Others" <=> ~champions /\ ~loyal /\ ~big /\ ~lost
            /\ <<r, f, m>> = <<5, 5, 5>> => s_row.segment = "Champions"
            /\ <<r, f, m>> = <<4, 4, 5>> => s_row.segment = "Loyal Customers"

\* The record with scores (4,4,5): it matches Loyal Customers and Big Spenders.
C4_Witness ==
    /\ s_pc = "select"
    /\ s_row.rfm_score = <<4, 4, 5>>
    /\ s_row.segment = "Loyal Customers"

(***************************************************************************)
(* C5.  Score inversion law: in each of the three dimensions the score of  *)
(* a row and its bucket add up to 6, and the score is in 1..5, whatever    *)
(* the number of rows.                                                     *)
(***************************************************************************)
C5_ScoreInversion ==
    e_pc = "rfm_scores" =>
        \A x \in e_rfm :
            /\ e_score[x] + e_ntile[x] = 6
            /\ e_score[x] \in 1..5
            /\ e_ntile[x] = 1 => e_score[x] = 5
            /\ e_ntile[x] = 5 => e_score[x] = 1

\* Four rows ranked by recency: the scores are 5, 4, 3 and 2.
C5_Witness ==
    /\ e_pc = "rfm_scores" /\ e_dim = "recency" /\ Cardinality(e_rfm) = 4
    /\ {e_score[x] : x \in e_rfm} = {5, 4, 3, 2}

(***************************************************************************)
(* C6.  No-invoice exclusion and coverage: when the run is over            *)
(* rfm_segmentation holds exactly one record for each customer that has a  *)
(* row in invoices and none for any other customer; no statement fails.    *)
(***************************************************************************)
C6_NoInvoiceExclusion ==
    /\ err = "none"
    /\ todo = <<>> =>
          /\ Keys(committed.rfm_segmentation, "customer_id")
                 = Keys(committed.invoices, "customer_id")
          /\ Cardinality(committed.rfm_segmentation)
                 = Cardinality(Keys(committed.invoices, "customer_id"))
          /\ \A c \in committed.customers :
                (\A v \in committed.invoices : v.customer_id # c.customer_id)
                    => \A x \in committed.rfm_segmentation :
                           x.customer_id # c.customer_id

\* Two customers on one invoice number: the invoice is stored under the
\* first, the second has no invoice and no record.
C6_Witness ==
    /\ err = "none" /\ todo = <<>>
    /\ Cardinality(committed.customers) = 2
    /\ Cardinality(committed.invoices) = 1
    /\ Cardinality(committed.rfm_segmentation) = 1
    /\ Len(committed.invoice_items) = 2

(***************************************************************************)
(* C7.  Monetary agrees with the line totals: when the run is over the     *)
(* monetary of every record equals the sum of TotalPrice over the lines of *)
(* the cleaned frame that carry the record's customer id.                  *)
(***************************************************************************)
RECURSIVE SumTotalPrice(_)
SumTotalPrice(K) ==
    IF K = {} THEN 0
    ELSE LET k == CHOOSE x \in K : TRUE
         IN  df[k].TotalPrice + SumTotalPrice(K \ {k})

C7_MonetaryIsLineTotal ==
    (err = "none" /\ todo = <<>>) =>
        \A x \in committed.rfm_segmentation :
            x.monetary = SumTotalPrice({k \in 1..Len(df) :
                                          df[k].CustomerID \div 10 = x.customer_id})

(***************************************************************************)
(* C8.  Load ordering and referential integrity: no insert fails; a row of *)
(* invoices is there only after the customers and products loops are over, *)
(* a row of invoice_items only after the invoices loop is over; and in     *)
(* every state, in the session and for every reader, each invoice's        *)
(* customer is in customers and each item's invoice and product are in     *)
(* invoices and products.                                                  *)
(***************************************************************************)
Pending(stmt) == \E n \in 1..Len(todo) : todo[n] = stmt

RefsResolve(db) ==
    /\ \A v \in db.invoices : v.customer_id \in Keys(db.customers, "customer_id")
    /\ \A n \in 1..Len(db.invoice_items) :
          /\ db.invoice_items[n].invoice_no \in Keys(db.invoices, "invoice_no")
          /\ db.invoice_items[n].stock_code \in Keys(db.products, "stock_code")

C8_LoadOrder ==
    /\ err = "none"
    /\ tx.invoices # {} => ~Pending("customers") /\ ~Pending("products")
    /\ tx.invoice_items # <<>> => ~Pending("invoices")
    /\ (Pending("invoices") /\ ~Pending("products")) =>
          /\ tx.customers = ExpectedCustomers
          /\ tx.products = ExpectedProducts
    /\ (Pending("invoice_items") /\ ~Pending("invoices")) =>
          tx.invoices = ExpectedInvoices
    /\ RefsResolve(tx)
    /\ RefsResolve(committed)

\* The load of two lines with different customers, products and invoices.
C8_Witness ==
    /\ err = "none" /\ At("commit") /\ Len(todo) = 4
    /\ Cardinality(tx.customers) = 2 /\ Cardinality(tx.products) = 2
    /\ Cardinality(tx.invoices) = 2 /\ Len(tx.invoice_items) = 2

(***************************************************************************)
(* C9.  Atomic rebuild: what a reader sees of rfm_segmentation changes in  *)
(* one step only, the commit that ends the run: the DROP and the CREATE    *)
(* TABLE AS become visible together.  A table that was visible stays       *)
(* visible, and what becomes visible is the complete set built from the    *)
(* committed base tables (empty only when no customer qualifies).  Before  *)
(* the first run ever commits there is no previous set to see.             *)
(***************************************************************************)
ReaderView(db) ==
    <<"rfm_segmentation" \in db.exists, db.rfm_segmentation>>

C9_AtomicRebuild ==
    [][ReaderView(committed') # ReaderView(committed) =>
           /\ At("commit") /\ Len(todo) = 1
           /\ "rfm_segmentation" \in committed'.exists
           /\ committed'.rfm_segmentation \in RfmSegmentation(committed')]_vars

\* A second run has dropped the table in its session; readers still see the
\* records of the first run.
C9_Witness ==
    /\ run = 2 /\ At("create_rfm")
    /\ "rfm_segmentation" \notin tx.exists
    /\ "rfm_segmentation" \in committed.exists
    /\ committed.rfm_segmentation # {}

(***************************************************************************)
(* C10.  Clean slate on re-run: when a run is over, the five tables hold   *)
(* what the file of that run alone gives: the first row of each customer,  *)
(* product and invoice key, one item per kept line, and a segmentation     *)
(* built from these, whatever the store held before.                       *)
(***************************************************************************)
ExpectedDb ==
    [exists |-> BaseTables \cup {"rfm_segmentation"},
     customers |-> ExpectedCustomers, products |-> ExpectedProducts,
     invoices |-> ExpectedInvoices, invoice_items |-> ExpectedItems,
     rfm_segmentation |-> {}]

C10_CleanSlate ==
    (err = "none" /\ todo = <<>>) =>
        /\ committed.exists = ExpectedDb.exists
        /\ committed.customers = ExpectedCustomers
        /\ committed.products = ExpectedProducts
        /\ committed.invoices = ExpectedInvoices
        /\ committed.invoice_items = ExpectedItems
        /\ committed.rfm_segmentation \in RfmSegmentation(ExpectedDb)

\* The same file of two kept lines run a second time: two items, not four.
C10_Witness ==
    /\ err = "none" /\ todo = <<>> /\ run = 2
    /\ csv = prev_csv /\ Cardinality(Kept) = 2
    /\ Len(committed.invoice_items) = 2

====
